---- MODULE Spec2Model ----
(***************************************************************************)
(* sudoku_solver.py: the command-line entry point, Board construction,     *)
(* Board.create_children and the recursive solve_board, as a state         *)
(* machine.                                                                *)
(*                                                                         *)
(* A cell position is its index 1..81 in the row-major list `positions`    *)
(* ('A1' is 1, 'A2' is 2, ..., 'I9' is 81).  A dict is a sequence of       *)
(* values indexed by position; a dict that main filled only partly (a      *)
(* ValueError stopped the parse loop) is a shorter sequence.  Objects live *)
(* in two heaps: `dicts` (the cell mappings) and `heap` (the Board         *)
(* objects, each naming its dict and holding its children list), so that   *)
(* sharing and copying of a mapping are distinguishable.                   *)
(***************************************************************************)
EXTENDS Integers, Sequences, FiniteSets, TLC

VARIABLES
    raw,        \* args.input: the raw input, a sequence of characters
    pc,         \* where the run is: main's position, or inside solve_board
    out,        \* what the program printed, in order
    exc,        \* the unhandled exception that ended the run, or "none"
    dicts,      \* heap of dict objects (cell mappings)
    heap,       \* heap of Board objects: [board |-> dict id, children |-> list]
    stack,      \* active solve_board invocations that are inside their for loop
    arg,        \* the Board a solve_board invocation was just called with
    ret,        \* the value a solve_board invocation just returned
    popMemo,    \* the order set.pop() yields each candidate set in, in this run
    calls,      \* number of top-level solve_board calls made so far
    results,    \* history: what each finished top-level call returned
    nInit,      \* history: number of times Board.__init__ was entered
    ccCalls     \* history: per Board, number of create_children calls on it

vars == << raw, pc, out, exc, dicts, heap, stack, arg, ret, popMemo, calls,
           results, nInit, ccCalls >>

(***************************************************************************)
(* Bounds of the model.                                                    *)
(***************************************************************************)
\* the first MaxVary characters of the input range over InputChars
MaxVary == 2
\* how many times a caller calls solve_board on equal initial assignments
MaxCalls == 2

(***************************************************************************)
(* Program constants.                                                      *)
(***************************************************************************)
Side == 9
BoxSide == 3
InputLen == 81

None == 0

(***************************************************************************)
(* elements_of_sudoku                                                      *)
(***************************************************************************)
NCells == Side * Side

positions == 1 .. NCells

RowOf(p) == (p - 1) \div Side

ColOf(p) == (p - 1) % Side

\* matrices[key]: the 3x3 grid list the cell belongs to
matrices(p) ==
    { q \in positions : /\ RowOf(q) \div BoxSide = RowOf(p) \div BoxSide
                        /\ ColOf(q) \div BoxSide = ColOf(p) \div BoxSide }

\* a neighbour table that leaves the row out
neighboursNoRow ==
    [ p \in positions |->
        ( { q \in positions : ColOf(q) = ColOf(p) } \cup matrices(p) ) \ { p } ]

\* neighbours[pos] = (row | column | matrix) - {pos}
neighbours ==
    [ p \in positions |->
        ( { q \in positions : RowOf(q) = RowOf(p) } \cup
          { q \in positions : ColOf(q) = ColOf(p) } \cup
          matrices(p) ) \ { p } ]

(***************************************************************************)
(* Inputs.  Four grids, each written row by row; the input string is one   *)
(* of them with its first MaxVary characters replaced, and possibly one    *)
(* character too short or too long.                                        *)
(***************************************************************************)
SolvedGrid ==
    << 5, 3, 4, 6, 7, 8, 9, 1, 2,
       6, 7, 2, 1, 9, 5, 3, 4, 8,
       1, 9, 8, 3, 4, 2, 5, 6, 7,
       8, 5, 9, 7, 6, 1, 4, 2, 3,
       4, 2, 6, 8, 5, 3, 7, 9, 1,
       7, 1, 3, 9, 2, 4, 8, 5, 6,
       9, 6, 1, 5, 3, 7, 2, 8, 4,
       2, 8, 7, 4, 1, 9, 6, 3, 5,
       3, 4, 5, 2, 8, 6, 1, 7, 9 >>

\* solvable, but some pop orders first try a branch child that fails
BacktrackPuzzle ==
    << 0, 0, 0, 6, 7, 8, 9, 1, 2,
       6, 7, 2, 1, 9, 5, 3, 4, 8,
       1, 9, 8, 3, 4, 2, 5, 6, 7,
       8, 5, 9, 7, 6, 1, 4, 2, 3,
       4, 2, 6, 8, 5, 3, 7, 9, 1,
       0, 1, 0, 9, 2, 4, 8, 5, 6,
       9, 6, 1, 5, 3, 7, 2, 8, 4,
       2, 8, 0, 4, 1, 9, 6, 0, 5,
       0, 0, 5, 2, 8, 6, 1, 0, 9 >>

\* passes construction, has no completion, and starts with a branch
UnsolvablePuzzle ==
    << 0, 3, 4, 0, 7, 5, 9, 0, 2,
       0, 7, 0, 0, 9, 0, 3, 0, 0,
       0, 9, 0, 3, 4, 0, 5, 0, 7,
       8, 5, 9, 7, 6, 1, 4, 2, 3,
       4, 2, 6, 8, 5, 3, 7, 9, 1,
       7, 1, 3, 9, 2, 4, 8, 5, 6,
       9, 6, 1, 0, 3, 7, 2, 8, 0,
       2, 8, 7, 0, 1, 9, 6, 3, 0,
       3, 4, 5, 2, 8, 6, 1, 7, 9 >>

\* three completions: every branch child leads to a solution
ManySolutionsPuzzle ==
    << 5, 3, 4, 6, 7, 8, 9, 1, 2,
       6, 7, 2, 1, 9, 5, 3, 4, 8,
       1, 9, 8, 3, 4, 2, 5, 6, 7,
       8, 5, 9, 7, 6, 1, 4, 2, 3,
       4, 2, 6, 8, 5, 3, 7, 9, 1,
       7, 1, 3, 0, 2, 0, 8, 5, 6,
       9, 6, 1, 0, 3, 7, 2, 8, 0,
       2, 8, 7, 0, 1, 0, 6, 3, 0,
       3, 4, 5, 2, 8, 6, 1, 7, 9 >>

Puzzles == { SolvedGrid, BacktrackPuzzle, UnsolvablePuzzle, ManySolutionsPuzzle }

DigitChars == << "0", "1", "2", "3", "4", "5", "6", "7", "8", "9" >>

\* the character of a digit 0..9
Chr(d) == DigitChars[d + 1]

\* characters the varied cells range over: four digits and a non-digit
InputChars == { "0", "3", "4", "5", "x" }

LengthEdits == { "keep", "drop", "extra" }

InputString(puzzle, head, edit) ==
    LET full == [ i \in 1 .. Len(puzzle) |->
                    IF i <= Len(head) THEN head[i] ELSE Chr(puzzle[i]) ]
    IN  CASE edit = "keep"  -> full
          [] edit = "drop"  -> SubSeq(full, 1, Len(full) - 1)
          [] edit = "extra" -> Append(full, "0")

IsDigit(ch) == \E d \in 0 .. 9 : DigitChars[d + 1] = ch

\* int(ch) for a digit character (int raises ValueError on any other)
IntOf(ch) == CHOOSE d \in 0 .. 9 : DigitChars[d + 1] = ch

Init ==
    /\ \E puzzle \in Puzzles, edit \in LengthEdits :
         \E head \in [ 1 .. MaxVary -> InputChars ] :
            raw = InputString(puzzle, head, edit)
    /\ pc = "start"
    /\ out = << >>
    /\ exc = "none"
    /\ dicts = << >>
    /\ heap = << >>
    /\ stack = << >>
    /\ arg = None
    /\ ret = None
    /\ popMemo = << >>
    /\ calls = 0
    /\ results = << >>
    /\ nInit = 0
    /\ ccCalls = << >>

(***************************************************************************)
(* __main__, lines 219-234: the length check and the parse loop.           *)
(***************************************************************************)
LengthMessage == "Input doesn't equal 81 characters. Try again"

InvalidMessage == "Invalid input"

NoSolutionMessage == "No possible solution found. Entered input might be invalid."

\* if len(args.input) == 81: pass / else: print(...); exit()
CheckLength ==
    /\ pc = "start"
    /\ IF Len(raw) = InputLen
          THEN /\ pc' = "parse"
               /\ out' = out
          ELSE /\ pc' = "exit"
               /\ out' = Append(out, LengthMessage)
    /\ UNCHANGED << raw, exc, dicts, heap, stack, arg, ret, popMemo, calls,
                    results, nInit, ccCalls >>

\* the one element of a singleton set
Only(S) == CHOOSE x \in S : TRUE

\* the first element of a set of positions (or indices) in iteration order
First(S) == CHOOSE x \in S : \A y \in S : x <= y

\* the last element of a set of positions
Last(S) == CHOOSE x \in S : \A y \in S : x >= y

\* number of leading characters int() accepts: the loop stops at the first
\* ValueError, leaving the dict with the keys filled so far
ParsedPrefix(s) ==
    Only({ IF bad = { } THEN Len(s) ELSE First(bad) - 1 :
           bad \in { { i \in 1 .. Len(s) : ~ IsDigit(s[i]) } } })

\* board = {}; for pos in positions: board[pos] = int(next(i))
\* except ValueError: print("Invalid input")   -- and the run goes on
ParseInput ==
    /\ pc = "parse"
    /\ \E n \in { ParsedPrefix(raw) } :
          /\ dicts' = << [ p \in 1 .. n |-> IntOf(raw[p]) ] >>
          /\ out' = IF n < NCells THEN Append(out, InvalidMessage) ELSE out
    /\ pc' = "construct"
    /\ UNCHANGED << raw, exc, heap, stack, arg, ret, popMemo, calls, results,
                    nInit, ccCalls >>

(***************************************************************************)
(* Board.__init__ and Board._assert_board_is_correct, lines 92-106.        *)
(***************************************************************************)
\* What the check of position p can raise on mapping m.  value =
\* self.board[pos] raises KeyError on a missing key.  For a filled cell the
\* neighbours are walked in the order of list(set(...)) over strings, which
\* differs from run to run, so the first offending neighbour may be any of
\* them: a missing key (KeyError) or an equal value (AssertionError).
RaisedAt(m, p) ==
    IF p > Len(m) THEN { "KeyError" }
    ELSE IF m[p] = 0 THEN { }
    ELSE ( IF Len(m) < NCells /\ \E q \in neighbours[p] : q > Len(m)
              THEN { "KeyError" } ELSE { } ) \cup
         ( IF \E q \in neighbours[p] : q <= Len(m) /\ m[q] = m[p]
              THEN { "AssertionError" } ELSE { } )

\* for pos in self.positions: ... -- the loop ends at the first position
\* whose check raises; "ok" when none does
assert_board_is_correct(m) ==
    IF \A p \in positions : RaisedAt(m, p) = { } THEN { "ok" }
    ELSE UNION { RaisedAt(m, p) :
                   p \in { First({ q \in positions : RaisedAt(m, q) # { } }) } }

\* sudoku_board = Board(board=board), line 235
Construct ==
    /\ pc = "construct"
    /\ nInit' = nInit + 1
    /\ \E o \in assert_board_is_correct(dicts[1]) :
          IF o = "ok"
             THEN /\ heap' = << [ board |-> 1, children |-> << >> ] >>
                  /\ ccCalls' = << 0 >>
                  /\ pc' = "solve"
                  /\ exc' = exc
             ELSE /\ exc' = o
                  /\ pc' = "crashed"
                  /\ UNCHANGED << heap, ccCalls >>
    /\ UNCHANGED << raw, out, dicts, stack, arg, ret, popMemo, calls, results >>

(***************************************************************************)
(* Board.board_is_solved, lines 177-183.                                   *)
(***************************************************************************)
board_is_solved(m) == \A p \in positions : m[p] # 0

(***************************************************************************)
(* Board.create_children, lines 108-175.                                   *)
(***************************************************************************)
full_set == 1 .. 9

\* the options computed without the row
OptionsNoRow(m, p) == full_set \ { m[q] : q \in neighboursNoRow[p] }

\* options[pos] = full_set - set(neighbour_values)
Options(m, p) == full_set \ { m[q] : q \in neighbours[p] }

\* the first loop: it returns at the first empty cell, in the order of
\* positions, that has no option (child fail) or exactly one (valid child);
\* when it runs to the end, the second part of the method makes several
\* children
Scan(m) ==
    Only({ IF decisive = { } THEN [ kind |-> "branch", pos |-> 0 ]
           ELSE IF Options(m, First(decisive)) = { }
                THEN [ kind |-> "dead", pos |-> First(decisive) ]
           ELSE [ kind |-> "forced", pos |-> First(decisive) ] :
           decisive \in { { p \in positions :
                              m[p] = 0 /\ Cardinality(Options(m, p)) <= 1 } } })

\* pos_options as built by lines 159-166: the number of options of each
\* empty cell
pos_options(m) ==
    [ p \in { q \in positions : m[q] = 0 } |-> Cardinality(Options(m, p)) ]

\* the last, not the first, cell that attains the minimum
min_posiblity_last(m) ==
    Only({ Last({ p \in DOMAIN len : \A q \in DOMAIN len : len[p] <= len[q] }) :
           len \in { pos_options(m) } })

\* min(pos_options, key=lambda x: len(pos_options[x])): pos_options holds the
\* empty cells in the order they were inserted (row-major), and min keeps the
\* first key that attains the minimum
min_posiblity_pos(m) ==
    Only({ First({ p \in DOMAIN len : \A q \in DOMAIN len : len[p] <= len[q] }) :
           len \in { pos_options(m) } })

\* the cell create_children fills, with how: "dead", "forced" or "branch"
Decision(m) ==
    Only({ IF s.kind = "branch"
              THEN [ kind |-> "branch", pos |-> min_posiblity_pos(m) ]
              ELSE s :
           s \in { Scan(m) } })

\* every order in which the elements of a set can be popped
Orders(c) ==
    { s \in [ 1 .. Cardinality(c) -> c ] :
         \A i, j \in 1 .. Cardinality(c) : i # j => s[i] # s[j] }

\* set.pop() removes and returns an arbitrary element.  The order in which a
\* set built as full_set - set(...) is emptied by pop() is fixed by the
\* interpreter (in CPython by the hash table's layout: {4, 9} yields 9 first),
\* not by the program: any order, but the same one for equal sets in one run.
PopOrders(memo, c) ==
    IF c \in DOMAIN memo THEN { memo[c] } ELSE Orders(c)

\* a child whose cell is never assigned
SetCellForgotten(m, pos, v) == m

\* child_board[pos] = value
SetCell(m, pos, v) == [ m EXCEPT ![pos] = v ]

\* child_board = self.board, without the copy
copy_alias(ds, src) == src

\* copy.copy(self.board): the id of the new dict object
copy_copy(ds, src) == Len(ds) + 1

\* child_board = copy.copy(self.board); child_board[pos] = value;
\* child = Board(board=child_board); self.children.append(child)
\* for one value: the heaps afterwards, and whether the Board's construction
\* check raised (the child is then neither made nor appended)
AppendChild(ds, hp, b, pos, value) ==
    LET src == hp[b].board
        t   == copy_copy(ds, src)
        ds1 == IF t > Len(ds) THEN Append(ds, ds[src]) ELSE ds
        ds2 == [ ds1 EXCEPT ![t] = SetCell(@, pos, value) ]
        id  == Len(hp) + 1
        hp1 == Append(hp, [ board |-> t, children |-> << >> ])
    IN  Only({ IF assert_board_is_correct(child_board) = { "ok" }
                  THEN [ dicts |-> ds2,
                         heap |-> [ hp1 EXCEPT ![b].children = Append(@, id) ],
                         raised |-> FALSE ]
                  ELSE [ dicts |-> ds2, heap |-> hp, raised |-> TRUE ] :
               child_board \in { ds2[t] } })

\* the loop over the values in the order they are popped; an AssertionError
\* ends it
RECURSIVE BuildChildren(_, _, _, _)
BuildChildren(r, b, pos, vals) ==
    IF vals = << >> \/ r.raised THEN r
    ELSE Only({ BuildChildren(r1, b, pos, Tail(vals)) :
                  r1 \in { AppendChild(r.dicts, r.heap, b, pos, Head(vals)) } })

\* the whole method on Board b of heap hp, the candidates popped in `order`
create_children(ds, hp, b, order) ==
    Only({ IF board_is_solved(m)
              THEN [ dicts |-> ds, heap |-> hp, raised |-> FALSE ]
           ELSE Only({ IF d.kind = "dead"
                          THEN [ dicts |-> ds,
                                 heap |-> [ hp EXCEPT ![b].children =
                                                         Append(@, None) ],
                                 raised |-> FALSE ]
                          ELSE BuildChildren(
                                  [ dicts |-> ds, heap |-> hp, raised |-> FALSE ],
                                  b, d.pos, order) :
                       d \in { Decision(m) } }) :
           m \in { ds[hp[b].board] } })

(***************************************************************************)
(* solve_board, lines 186-207.  A stack frame is one invocation inside its *)
(* for loop: the Board, the loop index i (1-based) and the loop's range.   *)
(***************************************************************************)
\* a loop starting at the second child
NewFrameSkipFirst(b, kids) == [ b |-> b, i |-> 2, n |-> Len(kids) ]

\* for i in range(len(board.children)): the range is taken once
NewFrame(b, kids) == [ b |-> b, i |-> 1, n |-> Len(kids) ]

\* the children taken from the end of the list
ChildAtReversed(kids, f) == kids[Len(kids) + 1 - f.i]

\* temp = board.children[i]
ChildAt(kids, f) == kids[f.i]

\* a failed child ending the loop
AfterFailedChildGiveUp(f) == [ f EXCEPT !.i = f.n + 1 ]

\* solution is None: pass -- the loop goes on to the next child
AfterFailedChild(f) == [ f EXCEPT !.i = @ + 1 ]

\* solution = solve_board(sudoku_board), line 236
MainCall ==
    /\ pc = "solve"
    /\ arg' = 1
    /\ calls' = 1
    /\ pc' = "call"
    /\ UNCHANGED << raw, out, exc, dicts, heap, stack, ret, popMemo, results,
                    nInit, ccCalls >>

\* lines 187-192: return the board if it is solved, else create its children
\* and enter the loop
Enter ==
    /\ pc = "call"
    /\ \E m \in { dicts[heap[arg].board] } :
          IF board_is_solved(m)
             THEN /\ ret' = arg
                  /\ pc' = "ret"
                  /\ UNCHANGED << exc, dicts, heap, stack, popMemo, nInit,
                                  ccCalls >>
             ELSE \E d \in { Decision(m) } :
                  \E c \in { IF d.kind = "dead" THEN { }
                              ELSE Options(m, d.pos) } :
                  \E order \in PopOrders(popMemo, c) :
                  \E r \in { create_children(dicts, heap, arg, order) } :
                  \E made \in { Len(r.heap) - Len(heap) } :
                     /\ dicts' = r.dicts
                     /\ heap' = r.heap
                     /\ popMemo' = IF d.kind = "branch"
                                      THEN (c :> order) @@ popMemo
                                      ELSE popMemo
                     /\ ccCalls' = [ x \in 1 .. Len(r.heap) |->
                                       IF x > Len(heap) THEN 0
                                       ELSE IF x = arg THEN ccCalls[x] + 1
                                       ELSE ccCalls[x] ]
                     /\ IF r.raised
                           THEN /\ nInit' = nInit + made + 1
                                /\ exc' = "AssertionError"
                                /\ pc' = "crashed"
                                /\ UNCHANGED << stack, ret >>
                           ELSE /\ nInit' = nInit + made
                                /\ stack' = Append(stack,
                                      NewFrame(arg, r.heap[arg].children))
                                /\ pc' = "loop"
                                /\ UNCHANGED << exc, ret >>
    /\ UNCHANGED << raw, out, arg, calls, results >>

\* lines 193-198 and 207: take the next child; None ends the call with None,
\* a Board is solved recursively; past the last child the call returns None
Loop ==
    /\ pc = "loop"
    /\ LET f == stack[Len(stack)]
           kids == heap[f.b].children
       IN  IF f.i > f.n
              THEN /\ ret' = None
                   /\ stack' = SubSeq(stack, 1, Len(stack) - 1)
                   /\ pc' = "ret"
                   /\ arg' = arg
           ELSE IF ChildAt(kids, f) = None
              THEN /\ ret' = None
                   /\ stack' = SubSeq(stack, 1, Len(stack) - 1)
                   /\ pc' = "ret"
                   /\ arg' = arg
           ELSE /\ arg' = ChildAt(kids, f)
                /\ pc' = "call"
                /\ UNCHANGED << ret, stack >>
    /\ UNCHANGED << raw, out, exc, dicts, heap, popMemo, calls, results,
                    nInit, ccCalls >>

\* lines 198-204: a recursive call came back; a solution is returned at once,
\* None moves the loop to the next child.  With no caller frame left the
\* value goes to the top-level caller.
Return ==
    /\ pc = "ret"
    /\ IF stack = << >>
          THEN /\ results' = Append(results,
                                IF ret = None THEN << >>
                                ELSE dicts[heap[ret].board])
               /\ pc' = "returned"
               /\ stack' = stack
       ELSE IF ret # None
          THEN /\ stack' = SubSeq(stack, 1, Len(stack) - 1)
               /\ pc' = "ret"
               /\ results' = results
       ELSE /\ stack' = [ stack EXCEPT ![Len(stack)] = AfterFailedChild(@) ]
            /\ pc' = "loop"
            /\ results' = results
    /\ UNCHANGED << raw, out, exc, dicts, heap, arg, ret, popMemo, calls,
                    nInit, ccCalls >>

\* A caller calls solve_board once more on an equal initial assignment:
\* either on the very same Board object, whose children lists the earlier
\* calls filled, or on a Board newly constructed from a copy of the mapping.
CallAgain ==
    /\ pc = "returned"
    /\ calls < MaxCalls
    /\ \E same \in BOOLEAN :
          IF same
             THEN /\ arg' = 1
                  /\ UNCHANGED << dicts, heap, nInit, ccCalls >>
             ELSE /\ dicts' = Append(dicts, dicts[1])
                  /\ heap' = Append(heap, [ board |-> Len(dicts) + 1,
                                            children |-> << >> ])
                  /\ ccCalls' = Append(ccCalls, 0)
                  /\ nInit' = nInit + 1
                  /\ arg' = Len(heap) + 1
    /\ calls' = calls + 1
    /\ pc' = "call"
    /\ UNCHANGED << raw, out, exc, stack, ret, popMemo, results >>

\* lines 237-245: print the outcome
Report ==
    /\ pc = "returned"
    /\ out' = Append(out, IF ret = None THEN NoSolutionMessage
                          ELSE dicts[heap[ret].board])
    /\ pc' = "done"
    /\ UNCHANGED << raw, exc, dicts, heap, stack, arg, ret, popMemo, calls,
                    results, nInit, ccCalls >>

Next ==
    \/ CheckLength
    \/ ParseInput
    \/ Construct
    \/ MainCall
    \/ Enter
    \/ Loop
    \/ Return
    \/ CallAgain
    \/ Report

Spec == Init /\ [][Next]_vars

\* the program runs on while it has a step to take
FairSpec == Spec /\ WF_vars(Next)

(***************************************************************************)
(* Vocabulary of the properties.  The rows, columns and boxes are written  *)
(* out from the grid's geometry, apart from the program's own tables.      *)
(***************************************************************************)
UnitRows == { { r * 9 + c + 1 : c \in 0 .. 8 } : r \in 0 .. 8 }

UnitCols == { { r * 9 + c + 1 : r \in 0 .. 8 } : c \in 0 .. 8 }

UnitBoxes ==
    { { (3 * br + dr) * 9 + 3 * bc + dc + 1 : dr \in 0 .. 2, dc \in 0 .. 2 } :
        br \in 0 .. 2, bc \in 0 .. 2 }

Units == UnitRows \cup UnitCols \cup UnitBoxes

\* the cells that share a row, a column or a box with p
Peers == [ p \in 1 .. 81 |-> UNION { u \in Units : p \in u } \ { p } ]

\* the mapping of Board object b
MappingOf(b) == dicts[heap[b].board]

\* the initial assignment, as the input string gives it
AllDigits == Len(raw) = 81 /\ \A i \in 1 .. 81 : IsDigit(raw[i])

Given == [ p \in 1 .. 81 |-> IntOf(raw[p]) ]

EmptyCells(m) == { p \in 1 .. 81 : m[p] = 0 }

\* no filled cell shares its value with a peer
NoDuplicate(m) ==
    \A p \in 1 .. 81 : m[p] # 0 => \A q \in Peers[p] : m[q] # m[p]

Candidates(m, p) == (1 .. 9) \ { m[q] : q \in Peers[p] }

\* m2 fills cells of m and changes none
Extends(m2, m) == \A p \in 1 .. 81 : m[p] # 0 => m2[p] = m[p]

\* some assignment of 1-9 to the empty cells of m satisfies every row, column
\* and box, decided by exhaustive placement cell by cell
RECURSIVE Completable(_)
Completable(m) ==
    IF EmptyCells(m) = { } THEN NoDuplicate(m)
    ELSE LET p == CHOOSE x \in EmptyCells(m) : \A y \in EmptyCells(m) : x <= y
         IN  \E v \in Candidates(m, p) :
                \E m2 \in { [ m EXCEPT ![p] = v ] } : Completable(m2)

\* the innermost solve_board invocation that is inside its loop
Top == stack[Len(stack)]

\* create_children has just run on Top.b: the loop has not yet taken a child
JustCreated == pc = "loop" /\ Top.i = 1

\* the Boards solve_board has returned so far, as mappings
ReturnedMappings ==
    { results[k] : k \in { j \in 1 .. Len(results) : results[j] # << >> } }
    \cup ( IF pc = "ret" /\ ret # None THEN { MappingOf(ret) } ELSE { } )

(***************************************************************************)
(* C1.  Soundness of solve_board: every Board it returns has no cell with  *)
(* value 0, has each of 1-9 exactly once in each of the 9 rows, 9 columns  *)
(* and 9 boxes, and agrees with the initial Board on every cell that was   *)
(* initially filled.                                                       *)
(***************************************************************************)
C1_Soundness ==
    \A s \in ReturnedMappings :
        /\ \A p \in 1 .. 81 : s[p] # 0
        /\ \A u \in Units : { s[p] : p \in u } = 1 .. 9
        /\ Extends(s, Given)

\* a top-level call returned a Board for an input that had empty cells
C1_Witness ==
    /\ pc = "returned"
    /\ ret # None
    /\ Cardinality(EmptyCells(Given)) >= 2

(***************************************************************************)
(* C2.  Completeness of solve_board: it returns None only if the initial   *)
(* assignment has no valid completion; a failed branch never makes the     *)
(* whole call return None while a sibling still leads to a solution.       *)
(***************************************************************************)
C2_Completeness ==
    ( pc = "returned" /\ ret = None ) => ~ Completable(Given)

\* None came back after the root's several branch children were all tried
C2_Witness ==
    /\ pc = "returned"
    /\ ret = None
    /\ Len(heap[1].children) >= 2

(***************************************************************************)
(* C10.  The construction check never fails inside the search: every child *)
(* Board that create_children builds passes _assert_board_is_correct, so   *)
(* every Board of the search tree has no filled cell equal to one of its   *)
(* 20 neighbours, and an AssertionError can only come from the initial     *)
(* assignment.                                                             *)
(***************************************************************************)
C10_ChildrenPassCheck ==
    /\ exc = "AssertionError" => ( heap = << >> /\ calls = 0 )
    /\ pc = "call" => NoDuplicate(MappingOf(arg))
    /\ JustCreated =>
          \A k \in 1 .. Len(heap[Top.b].children) :
             \E c \in { heap[Top.b].children[k] } :
                c # None => NoDuplicate(MappingOf(c))

\* the search built forced children and branch children
C10_Witness ==
    /\ exc = "none"
    /\ \E b \in 1 .. Len(heap) : Len(heap[b].children) >= 2
    /\ \E b \in 1 .. Len(heap) :
          Len(heap[b].children) = 1 /\ heap[b].children[1] # None

(***************************************************************************)
(* C7.  Monotonic progress of create_children: every Board it puts into    *)
(* the children list equals its source on all cells except one, which was  *)
(* empty in the source and holds a value 1-9 in the child; each child owns  *)
(* its own copy of the mapping, and no mapping is changed once made, so    *)
(* the source's own mapping is left as it was.                             *)
(***************************************************************************)
C7_ChildFillsOneCell ==
    JustCreated =>
       \E m \in { MappingOf(Top.b) } :
          \A k \in 1 .. Len(heap[Top.b].children) :
             \E c \in { heap[Top.b].children[k] } :
                c # None =>
                   /\ heap[c].board # heap[Top.b].board
                   /\ \E cm \in { MappingOf(c) } :
                         \E p \in 1 .. 81 :
                            /\ m[p] = 0
                            /\ cm[p] \in 1 .. 9
                            /\ \A q \in 1 .. 81 : q # p => cm[q] = m[q]

C7_MappingsStable ==
    \A d \in 1 .. Len(dicts) : dicts'[d] = dicts[d]

C7_MonotonicProgress ==
    [] C7_ChildFillsOneCell /\ [][C7_MappingsStable]_vars

\* create_children made a branch: several children of one source
C7_Witness ==
    /\ JustCreated
    /\ Len(heap[Top.b].children) >= 2

(***************************************************************************)
(* C8.  Outcome of the first create_children call on a valid unsolved      *)
(* Board: decided by the first empty cell in row-major order whose         *)
(* candidate set has at most one value -- children = [None] if it has      *)
(* none, one child filling that cell with its sole candidate if it has     *)
(* one; only when every empty cell has at least 2 candidates, a branch on  *)
(* the empty cell with the fewest candidates (the earliest among ties),    *)
(* one child per candidate value.  A solved Board keeps children empty.    *)
(***************************************************************************)
Least(S) == CHOOSE x \in S : \A y \in S : x <= y

C8_Expected(m, kids) ==
    LET E    == EmptyCells(m)
        card == [ p \in E |-> Cardinality(Candidates(m, p)) ]
        Low  == { p \in E : card[p] <= 1 }
    IN  IF Low # { }
           THEN LET p0 == Least(Low)
                IN  IF card[p0] = 0
                       THEN kids = << None >>
                       ELSE /\ Len(kids) = 1
                            /\ kids[1] # None
                            /\ \E v \in Candidates(m, p0) :
                                  MappingOf(kids[1]) = [ m EXCEPT ![p0] = v ]
           ELSE LET least == Least({ card[p] : p \in E })
                    p1    == Least({ p \in E : card[p] = least })
                IN  /\ Len(kids) = least
                    /\ \A k \in 1 .. Len(kids) : kids[k] # None
                    /\ \A v \in Candidates(m, p1) :
                          \E k \in 1 .. Len(kids) :
                             MappingOf(kids[k]) = [ m EXCEPT ![p1] = v ]

C8_CreateChildrenOutcome ==
    /\ ( JustCreated /\ ccCalls[Top.b] = 1 ) =>
          \E m \in { MappingOf(Top.b) } :
             \E kids \in { heap[Top.b].children } : C8_Expected(m, kids)
    /\ ( pc = "ret" /\ ret # None ) => heap[ret].children = << >>

\* a first call made a branch where two empty cells tied for the fewest
\* candidates
C8_Witness ==
    /\ JustCreated
    /\ ccCalls[Top.b] = 1
    /\ Len(heap[Top.b].children) >= 2
    /\ \E m \in { MappingOf(Top.b) } :
          \E p, q \in EmptyCells(m) :
             /\ p # q
             /\ Cardinality(Candidates(m, p)) = Len(heap[Top.b].children)
             /\ Cardinality(Candidates(m, q)) = Len(heap[Top.b].children)

(***************************************************************************)
(* C3.  Termination of solve_board: every call eventually returns; every   *)
(* recursive call is made on a Board with strictly fewer empty cells than  *)
(* its caller's Board, and the recursion depth (the number of invocations  *)
(* nested below the top-level call) never exceeds the number of cells the  *)
(* initial assignment leaves empty.                                        *)
(***************************************************************************)
\* solve_board invocations that are active
Depth == Len(stack) + ( IF pc = "call" THEN 1 ELSE 0 )

C3_RecursionBounded ==
    /\ ( pc = "call" /\ stack # << >> ) =>
          Cardinality(EmptyCells(MappingOf(arg)))
             < Cardinality(EmptyCells(MappingOf(Top.b)))
    /\ Depth >= 1 => Depth - 1 <= Cardinality(EmptyCells(Given))

C3_TopLevelCall == pc = "call" /\ stack = << >>

C3_Returned == pc = "returned"

C3_Termination ==
    [] C3_RecursionBounded /\ ( C3_TopLevelCall ~> C3_Returned )

\* the recursion is as deep as the bound allows: one level per empty cell
C3_Witness ==
    /\ pc = "call"
    /\ Cardinality(EmptyCells(Given)) >= 3
    /\ Depth - 1 = Cardinality(EmptyCells(Given))

(***************************************************************************)
(* C6.  Determinism of solve_board: calls started from equal initial cell  *)
(* assignments return equal results (the same solved mapping, or None each *)
(* time), also when the later call is made on the very same Board object,  *)
(* whose children lists the earlier call already filled.                   *)
(***************************************************************************)
C6_Determinism ==
    \A j, k \in 1 .. Len(results) : results[j] = results[k]

\* a second call on the same Board object, whose branch children the first
\* call had already appended, returned a solution
C6_Witness ==
    /\ Len(results) = 2
    /\ results[2] # << >>
    /\ ccCalls[1] = 2
    /\ Len(heap[1].children) >= 4

(***************************************************************************)
(* C9.  Branch order.  As stated: the branch children are listed in        *)
(* ascending order of the value placed in the chosen cell, so the solution *)
(* through the smallest candidate value is the one returned.               *)
(***************************************************************************)
\* the value a child holds in the one cell where it differs from its source
PlacedValue(m, c) ==
    MappingOf(c)[CHOOSE p \in 1 .. 81 : MappingOf(c)[p] # m[p]]

\* the values of the children list, in list order
PlacedValues(b) ==
    [ k \in 1 .. Len(heap[b].children) |->
        PlacedValue(MappingOf(b), heap[b].children[k]) ]

C9_AscendingBranchOrder ==
    ( JustCreated /\ ccCalls[Top.b] = 1 /\ Len(heap[Top.b].children) >= 2 ) =>
       \E vals \in { PlacedValues(Top.b) } :
          \A k \in 1 .. Len(vals) - 1 : vals[k] < vals[k + 1]

(***************************************************************************)
(* C9, amended.  The branch children are listed in the order in which      *)
(* set.pop() yields the candidate values, one child per value; solve_board *)
(* recurses into them in list order, so among several solvable siblings    *)
(* the returned solution is the one reached through the sibling that comes *)
(* first in the children list.                                             *)
(***************************************************************************)
\* the Boards with several children that the returned solution passed through
BranchesOnPath(sol) ==
    { b \in 1 .. Len(heap) :
         /\ Len(heap[b].children) >= 2
         /\ Extends(sol, MappingOf(b)) }

C9_ListOrder ==
    /\ ( JustCreated /\ ccCalls[Top.b] = 1 /\ Len(heap[Top.b].children) >= 2 ) =>
          \E vals \in { PlacedValues(Top.b) } :
             /\ vals = popMemo[{ vals[k] : k \in 1 .. Len(vals) }]
             /\ \A j, k \in 1 .. Len(vals) : j # k => vals[j] # vals[k]
    /\ ( pc = "returned" /\ ret # None ) =>
          \E sol \in { MappingOf(ret) } :
             \A b \in BranchesOnPath(sol) :
                \E kids \in { heap[b].children } :
                   \E first \in { Least({ k \in 1 .. Len(kids) :
                                     Completable(MappingOf(kids[k])) }) } :
                      Extends(sol, MappingOf(kids[first]))

\* the returned solution went through the first listed child of a branch,
\* although that child holds the larger value and its sibling is solvable too
C9_Witness ==
    /\ pc = "returned"
    /\ ret # None
    /\ \E sol \in { MappingOf(ret) } :
          \E b \in BranchesOnPath(sol) :
             \E kids \in { heap[b].children } :
                /\ PlacedValue(MappingOf(b), kids[1])
                      > PlacedValue(MappingOf(b), kids[2])
                /\ Extends(sol, MappingOf(kids[1]))
                /\ Completable(MappingOf(kids[2]))

(***************************************************************************)
(* C4.  An invalid initial board is rejected and reported: when a filled   *)
(* cell of the 81-cell input equals one of its row, column or box          *)
(* neighbours, no Board is produced, solve_board is never run, and the run *)
(* reports "input might be invalid" instead of ending in an unhandled      *)
(* exception.                                                              *)
(***************************************************************************)
Printed(msg) == \E k \in 1 .. Len(out) : out[k] = msg

C4_InvalidBoardReported ==
    ( pc \in { "crashed", "done", "exit" } /\ AllDigits /\ ~ NoDuplicate(Given) ) =>
       /\ heap = << >>
       /\ calls = 0
       /\ exc = "none"
       /\ Printed(NoSolutionMessage)

(***************************************************************************)
(* C5.  Malformed input never reaches the core: when the raw input is not  *)
(* 81 characters long or holds a non-digit character, a parse error is     *)
(* reported and neither Board construction nor solve_board is executed.    *)
(***************************************************************************)
Malformed == ~ AllDigits

C5_MalformedNeverReachesCore ==
    Malformed =>
       /\ nInit = 0
       /\ calls = 0
       /\ pc \in { "crashed", "done", "exit" } =>
             ( Printed(LengthMessage) \/ Printed(InvalidMessage) )

====
